---- MODULE Spec2Model ----
(***************************************************************************)
(* Model of class Polynomial (isj_proj6_xsmahe01.py).                      *)
(*                                                                         *)
(* A Python list object is a cell of `heap` (its identity is its index),   *)
(* a Polynomial object is an entry of `polys` holding the identity of the  *)
(* list its attribute __components refers to, and `ret` records the last   *)
(* call: the operation, its receiver and arguments, and what it returned.  *)
(* Lists are 1-based here: components[d + 1] is the coefficient of x^d.    *)
(***************************************************************************)
EXTENDS Integers, Sequences, FiniteSets

VARIABLES heap, polys, ret

vars == <<heap, polys, ret>>

(***************************************************************************)
(* Bounds of the model.                                                    *)
(***************************************************************************)
\* lifecycle specification (Spec)
MaxPolys == 3
LifeMaxLen == 1
LifeMaxPower == 2
\* operations on one constructed operand (SpecOps)
MaxLen == 3
MaxCoef == 2
MaxPower == 2
MaxX == 2
\* operations on two constructed operands (SpecOps)
PairMaxLen == 2
PairMaxCoef == 1
\* keyword construction (SpecKwargs)
MaxDegree == 11
MaxEntries == 2

(***************************************************************************)
(* Python built-ins used by the class.                                     *)
(***************************************************************************)
Min(a, b) == IF a < b THEN a ELSE b

Abs(n) == IF n < 0 THEN -n ELSE n

\* [0] * n : a list of n zeros, empty when n <= 0
Zeros(n) == [i \in 1..n |-> 0]

\* lst[:n] for 0 <= n
SliceTo(lst, n) == SubSeq(lst, 1, Min(n, Len(lst)))

\* lst[n:] for 0 <= n
SliceFrom(lst, n) == SubSeq(lst, n + 1, Len(lst))

\* lst.count(0)
CountZero(lst) == Cardinality({i \in 1..Len(lst) : lst[i] = 0})

\* x ** degree for an int x and a degree >= 0 (0 ** 0 is 1)
RECURSIVE IntPow(_, _)
IntPow(x, degree) == IF degree <= 0 THEN 1 ELSE x * IntPow(x, degree - 1)

DigitChars == <<"0", "1", "2", "3", "4", "5", "6", "7", "8", "9">>

DigitValue(c) == (CHOOSE i \in 1..10 : DigitChars[i] = c) - 1

\* str(n) / f"{n}" for an int n
RECURSIVE FormatNat(_)
FormatNat(n) ==
    IF n < 10 THEN DigitChars[n + 1]
    ELSE FormatNat(n \div 10) \o DigitChars[(n % 10) + 1]

FormatInt(n) == IF n < 0 THEN "-" \o FormatNat(-n) ELSE FormatNat(n)

\* int(s) for a string of decimal digits
RECURSIVE ParseDigits(_, _)
ParseDigits(s, acc) ==
    IF Len(s) = 0 THEN acc
    ELSE ParseDigits(Tail(s), 10 * acc + DigitValue(SubSeq(s, 1, 1)))

ParseInt(s) == ParseDigits(s, 0)

(***************************************************************************)
(* Polynomial.__init__: the components each call shape stores.             *)
(* kwargs is the keyword dictionary in insertion order, a sequence of      *)
(* [key |-> "xN", value |-> coefficient] with pairwise different keys.     *)
(***************************************************************************)
KwHas(kwargs, key) == \E i \in 1..Len(kwargs) : kwargs[i].key = key

KwGet(kwargs, key) ==
    kwargs[CHOOSE i \in 1..Len(kwargs) : kwargs[i].key = key].value

\* HighestDegree without the comparison: the degree of the last key wins
RECURSIVE HighestDegreeLast(_, _, _)
HighestDegreeLast(kwargs, i, highest_degree) ==
    IF i > Len(kwargs) THEN highest_degree
    ELSE HighestDegreeLast(kwargs, i + 1, ParseInt(Tail(kwargs[i].key)))

\* for degree in kwargs: if int(degree[1:]) > highest_degree: ...
RECURSIVE HighestDegree(_, _, _)
HighestDegree(kwargs, i, highest_degree) ==
    IF i > Len(kwargs) THEN highest_degree
    ELSE LET degree == ParseInt(Tail(kwargs[i].key))
         IN  HighestDegree(kwargs, i + 1,
                 IF degree > highest_degree THEN degree ELSE highest_degree)

KwargsComponents(kwargs) ==
    [i \in 1..(HighestDegree(kwargs, 1, 0) + 1) |->
        IF KwHas(kwargs, "x" \o FormatInt(i - 1))
        THEN KwGet(kwargs, "x" \o FormatInt(i - 1))
        ELSE 0]

\* list(args) for a non-empty tuple of ints
ArgsComponents(args) == [i \in 1..Len(args) |-> args[i]]

\* no arguments at all
EmptyComponents == <<0>>

(***************************************************************************)
(* Polynomial.__multiply_components                                        *)
(***************************************************************************)
\* MultiplyInner with = in place of += : a product overwrites the slot
RECURSIVE MultiplyInnerAssign(_, _, _, _, _)
MultiplyInnerAssign(result_components, components, outer_coefficient, outer_degree, inner_degree) ==
    IF inner_degree >= Len(components) THEN result_components
    ELSE MultiplyInnerAssign(
            [result_components EXCEPT ![outer_degree + inner_degree + 1] =
                outer_coefficient * components[inner_degree + 1]],
            components, outer_coefficient, outer_degree, inner_degree + 1)

RECURSIVE MultiplyInner(_, _, _, _, _)
MultiplyInner(result_components, components, outer_coefficient, outer_degree, inner_degree) ==
    IF inner_degree >= Len(components) THEN result_components
    ELSE MultiplyInner(
            [result_components EXCEPT ![outer_degree + inner_degree + 1] =
                @ + outer_coefficient * components[inner_degree + 1]],
            components, outer_coefficient, outer_degree, inner_degree + 1)

RECURSIVE MultiplyOuter(_, _, _, _)
MultiplyOuter(result_components, components, base_components, outer_degree) ==
    IF outer_degree >= Len(base_components) THEN result_components
    ELSE MultiplyOuter(
            MultiplyInner(result_components, components,
                          base_components[outer_degree + 1], outer_degree, 0),
            components, base_components, outer_degree + 1)

MultiplyComponents(components, base_components) ==
    MultiplyOuter(Zeros(Len(components) + Len(base_components) - 1),
                  components, base_components, 0)

(***************************************************************************)
(* Polynomial.__count_value and Polynomial.at_value                        *)
(***************************************************************************)
RECURSIVE CountValueLoop(_, _, _, _)
CountValueLoop(components, x_value, degree, accumulator) ==
    IF degree >= Len(components) THEN accumulator
    ELSE CountValueLoop(components, x_value, degree + 1,
            accumulator + components[degree + 1] * IntPow(x_value, degree))

CountValue(components, x_value) == CountValueLoop(components, x_value, 0, 0)

\* AtValueResult with "if not x_2" in place of "if x_2 is None"
AtValueResultFalsy(components, xs) ==
    LET value_1 == CountValue(components, xs[1])
    IN  IF Len(xs) = 1 \/ xs[2] = 0 THEN value_1
        ELSE CountValue(components, xs[2]) - value_1

\* xs is <<x_1>> when x_2 is left at its default None, <<x_1, x_2>> otherwise
AtValueResult(components, xs) ==
    LET value_1 == CountValue(components, xs[1])
    IN  IF Len(xs) = 1 THEN value_1
        ELSE CountValue(components, xs[2]) - value_1

(***************************************************************************)
(* Polynomial.derivative: the list handed to Polynomial(...)               *)
(***************************************************************************)
RECURSIVE DerivativeLoop(_, _, _)
DerivativeLoop(components, degree, result_components) ==
    IF degree >= Len(components) THEN result_components
    ELSE DerivativeLoop(components, degree + 1,
            IF degree = 0 THEN result_components
            ELSE [result_components EXCEPT ![degree] = components[degree + 1] * degree])

DerivativeComponents(components) ==
    DerivativeLoop(components, 0, Zeros(Len(components) - 1))

(***************************************************************************)
(* Polynomial.__str__                                                      *)
(***************************************************************************)
\* StrTerm without "or degree == 0": a constant term 1 or -1 loses its numeral
StrTermNoConstant(coefficient, degree) ==
    (IF coefficient > 0 THEN " + " ELSE " - ")
    \o (IF Abs(coefficient) # 1 THEN FormatInt(Abs(coefficient)) ELSE "")
    \o (IF degree > 1 THEN "x^" \o FormatInt(degree)
        ELSE IF degree = 1 THEN "x" ELSE "")

StrTerm(coefficient, degree) ==
    (IF coefficient > 0 THEN " + " ELSE " - ")
    \o (IF Abs(coefficient) # 1 \/ degree = 0 THEN FormatInt(Abs(coefficient)) ELSE "")
    \o (IF degree > 1 THEN "x^" \o FormatInt(degree)
        ELSE IF degree = 1 THEN "x" ELSE "")

\* for degree_complement, coefficient in enumerate(reversed(components))
RECURSIVE StrLoop(_, _, _)
StrLoop(components, degree_complement, string_form) ==
    IF degree_complement >= Len(components) THEN string_form
    ELSE LET coefficient == components[Len(components) - degree_complement]
             degree == (Len(components) - 1) - degree_complement
         IN  StrLoop(components, degree_complement + 1,
                 IF coefficient = 0 THEN string_form
                 ELSE string_form \o StrTerm(coefficient, degree))

StripLeadingSign(string_form) ==
    IF Len(string_form) >= 2 /\ SubSeq(string_form, 1, 2) = " +"
    THEN SubSeq(string_form, 4, Len(string_form))
    ELSE SubSeq(string_form, 2, Len(string_form))

StrResult(components) ==
    IF CountZero(components) = Len(components) THEN "0"
    ELSE StripLeadingSign(StrLoop(components, 0, ""))

(***************************************************************************)
(* Polynomial.__eq__ (both operands Polynomial objects)                    *)
(***************************************************************************)
\* EqResult without the branch for a longer receiver
EqResultOtherTail(components, other) ==
    LET min_length == Min(Len(components), Len(other))
    IN  IF SliceTo(components, min_length) # SliceTo(other, min_length) THEN FALSE
        ELSE CountZero(SliceFrom(other, min_length))
                 = Len(SliceFrom(other, min_length))

EqResult(components, other) ==
    LET min_length == Min(Len(components), Len(other))
    IN  IF SliceTo(components, min_length) # SliceTo(other, min_length) THEN FALSE
        ELSE IF Len(components) > Len(other)
             THEN CountZero(SliceFrom(components, min_length))
                      = Len(SliceFrom(components, min_length))
             ELSE CountZero(SliceFrom(other, min_length))
                      = Len(SliceFrom(other, min_length))

(***************************************************************************)
(* Polynomial.__add__: the list handed to Polynomial(...)                  *)
(***************************************************************************)
\* AddComponents that always appends the receiver's higher components
AddComponentsSelfTail(components, other) ==
    LET highest_common_degree == Min(Len(components), Len(other)) - 1
        components_summaries ==
            [i \in 1..(highest_common_degree + 1) |-> other[i] + components[i]]
    IN  components_summaries \o SliceFrom(components, highest_common_degree + 1)

AddComponents(components, other) ==
    LET highest_common_degree == Min(Len(components), Len(other)) - 1
        components_summaries ==
            [i \in 1..(highest_common_degree + 1) |-> other[i] + components[i]]
    IN  IF Len(other) < Len(components)
        THEN components_summaries \o SliceFrom(components, highest_common_degree + 1)
        ELSE components_summaries \o SliceFrom(other, highest_common_degree + 1)

(***************************************************************************)
(* Polynomial.__pow__: the list handed to Polynomial(...)                  *)
(***************************************************************************)
\* for _ in range(power): no iteration when power <= 0
RECURSIVE PowLoop(_, _, _)
PowLoop(components, power, result_components) ==
    IF power <= 0 THEN result_components
    ELSE PowLoop(components, power - 1,
                 MultiplyComponents(components, result_components))

PowComponents(components, power) == PowLoop(components, power, <<1>>)

(***************************************************************************)
(* Objects                                                                 *)
(***************************************************************************)
\* p.components : the list object itself, no copy
Components(p) == heap[polys[p]]

HasRoom == Len(polys) < MaxPolys

NoCall == [op |-> "none", self |-> 0, other |-> 0, arg |-> <<>>, val |-> 0]

\* Polynomial(lst) with a list object created just before the call: the
\* new object keeps a reference to that very list
NewPolynomial(lst, op, self, other, arg) ==
    /\ heap' = Append(heap, lst)
    /\ polys' = Append(polys, Len(heap) + 1)
    /\ ret' = [op |-> op, self |-> self, other |-> other, arg |-> arg,
               val |-> Len(polys) + 1]

\* a call that only returns a value
Observe(op, self, other, arg, val) ==
    /\ ret' = [op |-> op, self |-> self, other |-> other, arg |-> arg, val |-> val]
    /\ UNCHANGED <<heap, polys>>

(***************************************************************************)
(* Operations                                                              *)
(***************************************************************************)
NewFromList(lst) ==
    /\ HasRoom
    /\ NewPolynomial(lst, "init_list", Len(polys) + 1, 0, lst)

NewFromArgs(args) ==
    /\ HasRoom
    /\ Len(args) > 0
    /\ NewPolynomial(ArgsComponents(args), "init_args", Len(polys) + 1, 0, args)

NewFromKwargs(kwargs) ==
    /\ HasRoom
    /\ Len(kwargs) > 0
    /\ NewPolynomial(KwargsComponents(kwargs), "init_kwargs", Len(polys) + 1, 0, kwargs)

NewEmpty ==
    /\ HasRoom
    /\ NewPolynomial(EmptyComponents, "init_empty", Len(polys) + 1, 0, <<>>)

Derivative(p) ==
    /\ p \in DOMAIN polys
    /\ HasRoom
    /\ NewPolynomial(DerivativeComponents(Components(p)), "derivative", p, 0, <<>>)

\* Add that sums into the receiver's own list and returns a Polynomial on it
AddInPlace(p, q) ==
    /\ p \in DOMAIN polys
    /\ q \in DOMAIN polys
    /\ HasRoom
    /\ heap' = [heap EXCEPT ![polys[p]] = AddComponents(Components(p), Components(q))]
    /\ polys' = Append(polys, polys[p])
    /\ ret' = [op |-> "add", self |-> p, other |-> q, arg |-> <<>>,
               val |-> Len(polys) + 1]

Add(p, q) ==
    /\ p \in DOMAIN polys
    /\ q \in DOMAIN polys
    /\ HasRoom
    /\ NewPolynomial(AddComponents(Components(p), Components(q)), "add", p, q, <<>>)

Pow(p, power) ==
    /\ p \in DOMAIN polys
    /\ HasRoom
    /\ NewPolynomial(PowComponents(Components(p), power), "pow", p, 0, <<power>>)

AtValue(p, xs) ==
    /\ p \in DOMAIN polys
    /\ Observe("at_value", p, 0, xs, AtValueResult(Components(p), xs))

Eq(p, q) ==
    /\ p \in DOMAIN polys
    /\ q \in DOMAIN polys
    /\ Observe("eq", p, q, <<>>, EqResult(Components(p), Components(q)))

Str(p) ==
    /\ p \in DOMAIN polys
    /\ Observe("str", p, 0, <<>>, StrResult(Components(p)))

(***************************************************************************)
(* Inputs                                                                  *)
(***************************************************************************)
Lists(minLen, maxLen, coefficients) ==
    UNION {[1..n -> coefficients] : n \in minLen..maxLen}

\* coefficients of the objects constructed in Spec; zeros come from
\* Polynomial(), from keyword construction and from sums
LifeCoefs == {-1, 1}

LifeLists == Lists(1, LifeMaxLen, LifeCoefs)

LifeKwargs ==
    {<<[key |-> "x" \o FormatInt(d), value |-> c]>> : d \in 0..LifeMaxLen, c \in LifeCoefs}

\* exponents, a negative one included
Powers == -1..LifeMaxPower

\* the empty list is what derivative() hands on for a constant
UnaryLists == Lists(0, MaxLen, -MaxCoef..MaxCoef)

Xs == -1..MaxX

XArgs == {<<x_1>> : x_1 \in Xs} \cup {<<x_1, x_2>> : x_1 \in Xs, x_2 \in Xs}

PairLists == Lists(0, PairMaxLen, -PairMaxCoef..PairMaxCoef)

\* the keyword a caller writes for degree d
KeyOf(d) == "x" \o FormatInt(d)

\* keyword dictionaries of 1..MaxEntries entries x<d>=c with different degrees
KwEntries == [key : {KeyOf(d) : d \in 0..MaxDegree}, value : -1..1]

KwDicts ==
    {kw \in UNION {[1..n -> KwEntries] : n \in 1..MaxEntries} :
        \A i, j \in 1..Len(kw) : i # j => kw[i].key # kw[j].key}

(***************************************************************************)
(* Spec: objects are constructed in any of the four call shapes and        *)
(* derivative, + and ** are applied to the objects that exist.             *)
(***************************************************************************)
Init ==
    /\ heap = <<>>
    /\ polys = <<>>
    /\ ret = NoCall

Next ==
    \/ \E lst \in LifeLists : NewFromList(lst)
    \/ \E args \in LifeLists : NewFromArgs(args)
    \/ \E kwargs \in LifeKwargs : NewFromKwargs(kwargs)
    \/ NewEmpty
    \/ \E p \in 1..MaxPolys : Derivative(p)
    \/ \E p, q \in 1..MaxPolys : Add(p, q)
    \/ \E p \in 1..MaxPolys, power \in Powers : Pow(p, power)

Spec == Init /\ [][Next]_vars

(***************************************************************************)
(* SpecOps: the operations applied to constructed operands.  Either one    *)
(* polynomial exists and derivative, **, at_value and str are called on    *)
(* it, or two exist and == and + are called on every pair of them.         *)
(***************************************************************************)
InitOps ==
    \/ \E lst \in UnaryLists :
        /\ heap = <<lst>>
        /\ polys = <<1>>
        /\ ret = [op |-> "init_list", self |-> 1, other |-> 0, arg |-> lst, val |-> 1]
    \/ \E lst1, lst2 \in PairLists :
        /\ heap = <<lst1, lst2>>
        /\ polys = <<1, 2>>
        /\ ret = [op |-> "init_list", self |-> 2, other |-> 0, arg |-> lst2, val |-> 2]

NextOps ==
    \/ \E p \in {1} : Len(polys) = 1 /\ Derivative(p)
    \/ \E p \in {1}, power \in 0..MaxPower : Len(polys) = 1 /\ Pow(p, power)
    \/ \E p \in {1}, xs \in XArgs : Len(polys) = 1 /\ AtValue(p, xs)
    \/ \E p \in {1} : Len(polys) = 1 /\ Str(p)
    \/ \E p, q \in 1..2 : Len(polys) = 2 /\ Eq(p, q)
    \/ \E p, q \in 1..2 : Len(polys) = 2 /\ Add(p, q)

SpecOps == InitOps /\ [][NextOps]_vars

(***************************************************************************)
(* SpecKwargs: construction from keyword arguments.                        *)
(***************************************************************************)
NextKwargs == Len(polys) = 0 /\ \E kwargs \in KwDicts : NewFromKwargs(kwargs)

SpecKwargs == Init /\ [][NextKwargs]_vars

(***************************************************************************)
(* Properties                                                              *)
(***************************************************************************)
IsMutator(op) == op \in {"derivative", "add", "pow"}

Max(a, b) == IF a > b THEN a ELSE b

\* C1: every Polynomial that is constructed in any call shape or returned by
\* derivative, + or ** has a components sequence of length at least 1.
C1_LengthAtLeastOne == \A p \in DOMAIN polys : Len(Components(p)) >= 1

\* C5: derivative() of components of length L >= 2 returns components of
\* length L - 1 whose entry for degree d - 1 is components[d] * d for every
\* d in 1..L-1, and derivative() of components of length 1 returns [0].
C5_Derivative ==
    ret.op = "derivative" =>
        LET components == Components(ret.self)
            result == Components(ret.val)
        IN  /\ Len(components) >= 2 =>
                /\ Len(result) = Len(components) - 1
                /\ \A d \in 1..(Len(components) - 1) :
                       result[d] = components[d + 1] * d
            /\ Len(components) = 1 => result = <<0>>

\* C9: ** with a negative exponent signals an error and never returns a
\* polynomial.
C9_NegativePowerRaises ==
    (ret.op = "pow" /\ ret.arg[1] < 0) => ret.val \notin DOMAIN polys

\* components padded with trailing zeros to length n
Padded(components, n) ==
    [i \in 1..n |-> IF i <= Len(components) THEN components[i] ELSE 0]

PaddedEqual(a, b) ==
    Padded(a, Max(Len(a), Len(b))) = Padded(b, Max(Len(a), Len(b)))

\* C2: p == q is true exactly when the two components sequences, the shorter
\* padded with trailing zeros to the length of the longer, agree at every
\* index; q == p gives the same result, and p == p is true.
C2_Equality ==
    ret.op = "eq" =>
        LET a == Components(ret.self)
            b == Components(ret.other)
        IN  /\ ret.val = PaddedEqual(a, b)
            /\ ret.val = EqResult(b, a)
            /\ ret.self = ret.other => ret.val = TRUE

\* a longer receiver with a zero tail compared equal to a shorter nonzero one
C2_Witness ==
    /\ ret.op = "eq"
    /\ ret.val = TRUE
    /\ Len(Components(ret.self)) > Len(Components(ret.other))
    /\ Len(Components(ret.other)) >= 1
    /\ Components(ret.other)[1] # 0

SetMax(S) == CHOOSE m \in S : \A e \in S : e <= m

NonZeroDegrees(components) ==
    {d \in 0..(Len(components) - 1) : components[d + 1] # 0}

\* a term without its sign
TermBody(coefficient, degree) ==
    (IF Abs(coefficient) = 1 /\ degree # 0 THEN "" ELSE FormatInt(Abs(coefficient)))
    \o (CASE degree = 0 -> ""
          [] degree = 1 -> "x"
          [] OTHER -> "x^" \o FormatInt(degree))

RECURSIVE LaterTerms(_, _)
LaterTerms(components, degrees) ==
    IF degrees = {} THEN ""
    ELSE LET d == SetMax(degrees)
         IN  (IF components[d + 1] > 0 THEN " + " ELSE " - ")
             \o TermBody(components[d + 1], d)
             \o LaterTerms(components, degrees \ {d})

Rendering(components) ==
    IF NonZeroDegrees(components) = {} THEN "0"
    ELSE LET d == SetMax(NonZeroDegrees(components))
         IN  (IF components[d + 1] > 0 THEN "" ELSE "- ")
             \o TermBody(components[d + 1], d)
             \o LaterTerms(components, NonZeroDegrees(components) \ {d})

\* C3: str(p) is "0" when every coefficient is zero; otherwise it lists the
\* nonzero terms in strictly descending degree, each as abs(coefficient)
\* (left out when it is 1 and the degree is not 0) followed by nothing, "x"
\* or "x^<degree>", later terms joined by " + " or " - ", the first term
\* bare when positive and prefixed "- " when negative.
C3_Rendering == ret.op = "str" => ret.val = Rendering(Components(ret.self))

\* a negative leading term with a numeral, a unit x term and a constant -1
C3_Witness ==
    /\ ret.op = "str"
    /\ Components(ret.self) = <<-1, 1, -2>>
    /\ ret.val = "- 2x^2 + x - 1"

Reorderings(kwargs) ==
    {[i \in 1..Len(kwargs) |-> kwargs[f[i]]] :
        f \in {g \in [1..Len(kwargs) -> 1..Len(kwargs)] :
                  \A i, j \in 1..Len(kwargs) : i # j => g[i] # g[j]}}

\* C4: construction from keyword entries for non-negative degrees yields
\* components of length max_degree + 1 holding the supplied coefficient at
\* every supplied degree and 0 elsewhere, whatever the order of the entries.
C4_SparseConstruction ==
    ret.op = "init_kwargs" =>
        LET kwargs == ret.arg
            components == Components(ret.val)
            supplied == {d \in 0..MaxDegree :
                            \E i \in 1..Len(kwargs) : kwargs[i].key = KeyOf(d)}
            max_degree == SetMax(supplied)
        IN  /\ Len(components) = max_degree + 1
            /\ \A d \in 0..max_degree :
                   components[d + 1] =
                       IF d \in supplied
                       THEN kwargs[CHOOSE i \in 1..Len(kwargs) :
                                       kwargs[i].key = KeyOf(d)].value
                       ELSE 0
            /\ \A other \in Reorderings(kwargs) : KwargsComponents(other) = components

\* the highest degree, a two-digit one, is given first
C4_Witness ==
    /\ ret.op = "init_kwargs"
    /\ ret.arg = <<[key |-> "x11", value |-> 1], [key |-> "x3", value |-> -1]>>
    /\ Components(ret.val) = <<0, 0, 0, -1, 0, 0, 0, 0, 0, 0, 0, 1>>

\* C6: p + q has length max(len(p), len(q)); its entry at an index below
\* min(len(p), len(q)) is p[i] + q[i] and above it the entry of the longer
\* operand, trailing zeros kept; q + p has the same components.
C6_Addition ==
    ret.op = "add" =>
        LET a == Components(ret.self)
            b == Components(ret.other)
            result == Components(ret.val)
            longer == IF Len(a) >= Len(b) THEN a ELSE b
        IN  /\ Len(result) = Max(Len(a), Len(b))
            /\ \A i \in 1..Len(result) :
                   result[i] = IF i <= Min(Len(a), Len(b)) THEN a[i] + b[i]
                               ELSE longer[i]
            /\ result = AddComponents(b, a)

\* a shorter receiver, and a sum that ends in a zero
C6_Witness ==
    /\ ret.op = "add"
    /\ Len(Components(ret.self)) >= 1
    /\ Len(Components(ret.self)) < Len(Components(ret.other))
    /\ Components(ret.val)[Len(Components(ret.val))] = 0
    /\ Components(ret.val)[1] # 0

RECURSIVE ConvolutionEntry(_, _, _, _)
ConvolutionEntry(u, v, k, i) ==
    IF i > Len(u) THEN 0
    ELSE (IF k - i + 1 >= 1 /\ k - i + 1 <= Len(v) THEN u[i] * v[k - i + 1] ELSE 0)
         + ConvolutionEntry(u, v, k, i + 1)

Convolution(u, v) == [k \in 1..(Len(u) + Len(v) - 1) |-> ConvolutionEntry(u, v, k, 1)]

RECURSIVE ConvolutionPower(_, _)
ConvolutionPower(components, n) ==
    IF n = 0 THEN <<1>>
    ELSE Convolution(ConvolutionPower(components, n - 1), components)

\* C7: for components of length L >= 1 and n >= 0, p ** n has the n-fold
\* discrete convolution of p's components starting from [1], of length
\* n * (L - 1) + 1; p ** 0 has components [1] and p ** 1 == p.
C7_Power ==
    (ret.op = "pow" /\ Len(Components(ret.self)) >= 1 /\ ret.arg[1] >= 0) =>
        LET components == Components(ret.self)
            n == ret.arg[1]
            result == Components(ret.val)
        IN  /\ result = ConvolutionPower(components, n)
            /\ Len(result) = n * (Len(components) - 1) + 1
            /\ n = 0 => result = <<1>>
            /\ n = 1 => EqResult(result, components) /\ EqResult(components, result)

\* (x - 1) ** 2
C7_Witness ==
    /\ ret.op = "pow"
    /\ ret.arg = <<2>>
    /\ Components(ret.self) = <<-1, 1>>
    /\ Components(ret.val) = <<1, -2, 1>>

RECURSIVE Horner(_, _, _)
Horner(components, x, i) ==
    IF i > Len(components) THEN 0
    ELSE components[i] + x * Horner(components, x, i + 1)

\* C8: at_value(x1) is the sum of components[i] * x1^i, x1^0 being 1 also
\* for x1 = 0, and at_value(x1, x2) is at_value(x2) - at_value(x1), also
\* when x2 is 0.
C8_AtValue ==
    ret.op = "at_value" =>
        LET components == Components(ret.self)
            xs == ret.arg
        IN  /\ Len(xs) = 1 => ret.val = Horner(components, xs[1], 1)
            /\ Len(xs) = 2 =>
                   ret.val = Horner(components, xs[2], 1) - Horner(components, xs[1], 1)
            /\ (xs = <<0>> /\ Len(components) >= 1) => ret.val = components[1]

\* at_value(2, 0) of 1 - 2x
C8_Witness ==
    /\ ret.op = "at_value"
    /\ ret.arg = <<2, 0>>
    /\ Components(ret.self) = <<1, -2>>
    /\ ret.val = 4

\* C10: no call changes the components of a Polynomial that exists, and
\* derivative, + and ** return a new Polynomial whose components list is a
\* new list that no operand refers to.
C10_Immutable ==
    [][/\ \A p \in DOMAIN polys : p \in DOMAIN polys' /\ polys'[p] = polys[p]
       /\ \A lst \in DOMAIN heap : lst \in DOMAIN heap' /\ heap'[lst] = heap[lst]
       /\ IsMutator(ret'.op) =>
              /\ ret'.val \in DOMAIN polys' \ DOMAIN polys
              /\ polys'[ret'.val] \notin {polys[p] : p \in DOMAIN polys}]_vars

\* the sum of two different objects is a third object on a third list
C10_Witness ==
    /\ ret.op = "add"
    /\ ret.self # ret.other
    /\ Components(ret.self) # Components(ret.val)
    /\ Components(ret.other) # Components(ret.val)
    /\ polys[ret.val] \notin {polys[ret.self], polys[ret.other]}

====
